---------------------------- MODULE Spec2Model ----------------------------
(***************************************************************************)
(* SimpleVector<int> (simple-vector/simple_vector.h) as a state machine.   *)
(*                                                                         *)
(* The free store is modelled explicitly: heap maps a buffer address to    *)
(* the slots of the array allocated there, and every vector holds the      *)
(* address its ArrayPtr owns.  A slot that was allocated and never written *)
(* holds Uninit.  Slots in [size_, capacity_) keep whatever was last       *)
(* written to them, exactly as the raw array does.                         *)
(***************************************************************************)
EXTENDS Integers, Sequences, FiniteSets, TLC

\* ------------------------------------------------------------------ bounds
MaxCap == 4       \* largest capacity a vector reaches under Spec
MaxCapTwo == 2    \* largest capacity a vector reaches under SpecTwo
MaxVal == 1       \* element values are 0..MaxVal
MaxPushes == 6    \* length of the PushBack-only runs of SpecPush
NBuf == 3         \* addresses of the free store

Values == 0..MaxVal
\* Element values under SpecTwo: the default value and one other.
ValuesTwo == {0, 1}
Names == {"A", "B"}
BufIds == 1..NBuf

\* ------------------------------------------------------ program constants
Null == 0          \* the null pointer of an empty ArrayPtr
Uninit == -1       \* content of a slot that was allocated and never written
DefaultValue == 0  \* Type() for Type = int

VARIABLES heap, vec, last
vars == <<heap, vec, last>>

\* ----------------------------------------------------------------- ArrayPtr
\* The next address operator new[] hands out: the lowest free one.
FreeBuf(h) == CHOOSE b \in BufIds : h[b] = <<>> /\ \A c \in 1..(b - 1) : h[c] # <<>>

\* ArrayPtr(size): null for size 0, otherwise size fresh unwritten slots.
NewArray(h, n) ==
    IF n = 0 THEN [h |-> h, p |-> Null]
    ELSE LET b == FreeBuf(h)
         IN [h |-> [h EXCEPT ![b] = [i \in 1..n |-> Uninit]], p |-> b]

\* ~ArrayPtr(): delete[] of the owned array.
DeleteArray(h, p) == IF p = Null THEN h ELSE [h EXCEPT ![p] = <<>>]

\* array_[i] and its assignment, with the code's 0-based index.
Get(h, p, i) == h[p][i + 1]
Put(h, p, i, x) == [h EXCEPT ![p][i + 1] = x]

\* std::move(first, last, d_first): forward element-wise assignment of
\* slots [first, last) of sp to dp starting at d.
RECURSIVE StdMove(_, _, _, _, _, _)
StdMove(h, sp, first, lst, dp, d) ==
    IF first >= lst THEN h
    ELSE StdMove(Put(h, dp, d, Get(h, sp, first)), sp, first + 1, lst, dp, d + 1)

\* std::move_backward(first, last, d_last) within one array: last to first.
RECURSIVE StdMoveBackward(_, _, _, _, _)
StdMoveBackward(h, p, first, lst, dlast) ==
    IF first >= lst THEN h
    ELSE StdMoveBackward(Put(h, p, dlast - 1, Get(h, p, lst - 1)),
                         p, first, lst - 1, dlast - 1)

\* std::fill(begin, begin + n, x)
RECURSIVE StdFill(_, _, _, _, _)
StdFill(h, p, first, lst, x) ==
    IF first >= lst THEN h ELSE StdFill(Put(h, p, first, x), p, first + 1, lst, x)

\* ------------------------------------------------------------- the object
\* SimpleVector's three members.
Vector(p, s, c) == [array_ |-> p, size_ |-> s, capacity_ |-> c]
\* The storage of an object that is not constructed (B before a constructor
\* ran, or after its destructor).
Dead == [alive |-> FALSE, array_ |-> Null, size_ |-> 0, capacity_ |-> 0]
Alive(v) == [alive |-> TRUE, array_ |-> v.array_, size_ |-> v.size_,
             capacity_ |-> v.capacity_]

\* The elements begin()..end(): slots [0, size_) of the owned array.
Elems(h, v) == [i \in 1..v.size_ |-> h[v.array_][i]]
\* All slots [0, capacity_) of the owned array, stale ones included.
Slots(h, v) == IF v.array_ = Null THEN <<>> ELSE h[v.array_]


\* ------------------------------------------------------------ constructors
\* SimpleVector()
CtorDefault(h) == [h |-> h, v |-> Vector(Null, 0, 0)]

\* explicit SimpleVector(size_t size)
CtorSize(h, n) ==
    LET na == NewArray(h, n)
    IN [h |-> StdFill(na.h, na.p, 0, n, DefaultValue), v |-> Vector(na.p, n, n)]

\* explicit SimpleVector(ReserveProxyObj reserve)
CtorReserve(h, c) ==
    LET na == NewArray(h, c)
    IN [h |-> na.h, v |-> Vector(na.p, 0, c)]

\* SimpleVector(size_t size, const Type& value)
CtorFill(h, n, value) ==
    LET na == NewArray(h, n)
    IN [h |-> StdFill(na.h, na.p, 0, n, value), v |-> Vector(na.p, n, n)]

\* std::copy(init.begin(), init.end(), begin())
RECURSIVE CopyList(_, _, _, _)
CopyList(h, p, init, i) ==
    IF i >= Len(init) THEN h ELSE CopyList(Put(h, p, i, init[i + 1]), p, init, i + 1)

\* The list constructor as it would be if it filled the array back to front.
RECURSIVE CopyListReversed(_, _, _, _)
CopyListReversed(h, p, init, i) ==
    IF i >= Len(init) THEN h
    ELSE CopyListReversed(Put(h, p, Len(init) - 1 - i, init[i + 1]), p, init, i + 1)

CtorInitReversed(h, init) ==
    LET na == NewArray(h, Len(init))
    IN [h |-> CopyListReversed(na.h, na.p, init, 0), v |-> Vector(na.p, Len(init), Len(init))]

\* SimpleVector(std::initializer_list<Type> init)
CtorInit(h, init) ==
    LET na == NewArray(h, Len(init))
    IN [h |-> CopyList(na.h, na.p, init, 0), v |-> Vector(na.p, Len(init), Len(init))]

\* CopyCapacity as it would be if the copy kept the source's capacity.
CopyCapacityOfSource(other) == other.capacity_

\* The capacity SimpleVector(const SimpleVector&) allocates.
CopyCapacity(other) == other.size_

\* SimpleVector(const SimpleVector& other)
CtorCopy(h, other) ==
    LET na == NewArray(h, CopyCapacity(other))
    IN [h |-> StdMove(na.h, other.array_, 0, other.size_, na.p, 0),
        v |-> Vector(na.p, other.size_, CopyCapacity(other))]

\* SimpleVector(SimpleVector&& other): v is the new object, o the source after.
CtorMove(h, other) ==
    [h |-> h, v |-> Vector(other.array_, other.size_, other.capacity_),
     o |-> Vector(Null, 0, 0)]

\* ---------------------------------------------------------------- mutators
\* GrowCapacity as it would be if the array grew by one slot.
GrowCapacityByOne(c) == c + 1

\* The growth rule of PushBack and Insert.
GrowCapacity(c) == IF c = 0 THEN 1 ELSE 2 * c

\* PushBackOp as it would be without line 78: the grown array is swapped in
\* before the elements were moved into it.
PushBackOpDropsElements(h, v, item) ==
    IF v.size_ = v.capacity_
    THEN LET nc == IF v.capacity_ = 0 THEN 1 ELSE 2 * v.capacity_
             na == NewArray(h, nc)
         IN [h |-> Put(DeleteArray(na.h, v.array_), na.p, v.size_, item),
             v |-> Vector(na.p, v.size_ + 1, nc)]
    ELSE [h |-> Put(h, v.array_, v.size_, item),
          v |-> Vector(v.array_, v.size_ + 1, v.capacity_)]

\* void PushBack(Type item)
PushBackOp(h, v, item) ==
    LET grow == v.size_ = v.capacity_
        nc == GrowCapacity(v.capacity_)
        na == NewArray(h, nc)
        h1 == StdMove(na.h, v.array_, 0, v.size_, na.p, 0)
        hg == DeleteArray(h1, v.array_)
        h2 == IF grow THEN hg ELSE h
        p2 == IF grow THEN na.p ELSE v.array_
        c2 == IF grow THEN nc ELSE v.capacity_
    IN [h |-> Put(h2, p2, v.size_, item), v |-> Vector(p2, v.size_ + 1, c2)]

\* void PopBack() noexcept, called with size_ > 0
PopBackOp(h, v) == [h |-> h, v |-> Vector(v.array_, v.size_ - 1, v.capacity_)]

\* The value that `value` denotes when Insert constructs from it in heap h:
\* x for an object outside the vector, the current content of slot ref of
\* array p when the argument is a reference to an element of the vector.
Deref(h, p, x, ref) == IF ref < 0 THEN x ELSE Get(h, p, ref)

\* Iterator Insert(ConstIterator pos, Container&& value), index = pos - begin()
InsertOp(h, v, index, x, ref) ==
    IF v.size_ = v.capacity_
    THEN LET nc == GrowCapacity(v.capacity_)
             na == NewArray(h, nc)
             h1 == StdMove(na.h, v.array_, 0, index, na.p, 0)
             h2 == Put(h1, na.p, index, Deref(h1, v.array_, x, ref))
             h3 == StdMove(h2, v.array_, index, v.size_, na.p, index + 1)
         IN [h |-> DeleteArray(h3, v.array_), v |-> Vector(na.p, v.size_ + 1, nc),
             itb |-> na.p, iti |-> index]
    ELSE LET h1 == StdMoveBackward(h, v.array_, index, v.size_, v.size_ + 1)
             h2 == Put(h1, v.array_, index, Deref(h1, v.array_, x, ref))
         IN [h |-> h2, v |-> Vector(v.array_, v.size_ + 1, v.capacity_),
             itb |-> v.array_, iti |-> index]

\* EraseOp as it would be without the shift of lines 115-117.
EraseOpNoShift(h, v, index) ==
    [h |-> h, v |-> Vector(v.array_, v.size_ - 1, v.capacity_),
     itb |-> v.array_, iti |-> index]

\* Iterator Erase(ConstIterator pos), index = pos - begin(), index < size_
EraseOp(h, v, index) ==
    LET h1 == IF index < v.size_ - 1
              THEN StdMove(h, v.array_, index + 1, v.size_, v.array_, index)
              ELSE h
    IN [h |-> h1, v |-> Vector(v.array_, v.size_ - 1, v.capacity_),
        itb |-> v.array_, iti |-> index]

\* ReserveOp as it would be without line 132: the new array is swapped in
\* before the elements were moved into it.
ReserveOpLosesElements(h, v, new_capacity) ==
    IF new_capacity > v.capacity_
    THEN LET na == NewArray(h, new_capacity)
         IN [h |-> DeleteArray(na.h, v.array_), v |-> Vector(na.p, v.size_, new_capacity)]
    ELSE [h |-> h, v |-> v]

\* Reserve as it would be if it also shrank the array to new_capacity when
\* the elements fit.
ReserveOpShrinks(h, v, new_capacity) ==
    IF new_capacity # v.capacity_ /\ new_capacity >= v.size_
    THEN LET na == NewArray(h, new_capacity)
             h1 == StdMove(na.h, v.array_, 0, v.size_, na.p, 0)
         IN [h |-> DeleteArray(h1, v.array_), v |-> Vector(na.p, v.size_, new_capacity)]
    ELSE [h |-> h, v |-> v]

\* void Reserve(size_t new_capacity)
ReserveOp(h, v, new_capacity) ==
    IF new_capacity > v.capacity_
    THEN LET na == NewArray(h, new_capacity)
             h1 == StdMove(na.h, v.array_, 0, v.size_, na.p, 0)
         IN [h |-> DeleteArray(h1, v.array_), v |-> Vector(na.p, v.size_, new_capacity)]
    ELSE [h |-> h, v |-> v]

\* Clear as it would be if it released the array.
ClearOpReleases(h, v) == [h |-> DeleteArray(h, v.array_), v |-> Vector(Null, 0, 0)]

\* void Clear() noexcept
ClearOp(h, v) == [h |-> h, v |-> Vector(v.array_, 0, v.capacity_)]

\* ResizeOp as it would be without line 187: the capacity is not updated
\* after the array grew.
ResizeOpKeepsCapacity(h, v, new_size) ==
    IF new_size > v.capacity_
    THEN LET na == NewArray(h, new_size)
             h1 == StdMove(na.h, v.array_, 0, v.size_, na.p, 0)
             h2 == StdFill(h1, na.p, v.size_, new_size, DefaultValue)
         IN [h |-> DeleteArray(h2, v.array_), v |-> Vector(na.p, new_size, v.capacity_)]
    ELSE LET h1 == IF new_size > v.size_
                   THEN StdFill(h, v.array_, v.size_, new_size, DefaultValue)
                   ELSE h
         IN [h |-> h1, v |-> Vector(v.array_, new_size, v.capacity_)]

\* ResizeOp as it would be if it grew like PushBack: to at least twice the
\* old capacity.
ResizeOpDoubles(h, v, new_size) ==
    IF new_size > v.capacity_
    THEN LET nc == IF new_size > 2 * v.capacity_ THEN new_size ELSE 2 * v.capacity_
             na == NewArray(h, nc)
             h1 == StdMove(na.h, v.array_, 0, v.size_, na.p, 0)
             h2 == StdFill(h1, na.p, v.size_, new_size, DefaultValue)
         IN [h |-> DeleteArray(h2, v.array_), v |-> Vector(na.p, new_size, nc)]
    ELSE LET h1 == IF new_size > v.size_
                   THEN StdFill(h, v.array_, v.size_, new_size, DefaultValue)
                   ELSE h
         IN [h |-> h1, v |-> Vector(v.array_, new_size, v.capacity_)]

\* ResizeOp as it would be without lines 190-194: growing within the
\* capacity only sets the size.
ResizeOpNoConstruct(h, v, new_size) ==
    IF new_size > v.capacity_
    THEN LET na == NewArray(h, new_size)
             h1 == StdMove(na.h, v.array_, 0, v.size_, na.p, 0)
             h2 == StdFill(h1, na.p, v.size_, new_size, DefaultValue)
         IN [h |-> DeleteArray(h2, v.array_), v |-> Vector(na.p, new_size, new_size)]
    ELSE [h |-> h, v |-> Vector(v.array_, new_size, v.capacity_)]

\* void Resize(size_t new_size)
ResizeOp(h, v, new_size) ==
    IF new_size > v.capacity_
    THEN LET na == NewArray(h, new_size)
             h1 == StdMove(na.h, v.array_, 0, v.size_, na.p, 0)
             h2 == StdFill(h1, na.p, v.size_, new_size, DefaultValue)
         IN [h |-> DeleteArray(h2, v.array_), v |-> Vector(na.p, new_size, new_size)]
    ELSE LET h1 == IF new_size > v.size_
                   THEN StdFill(h, v.array_, v.size_, new_size, DefaultValue)
                   ELSE h
         IN [h |-> h1, v |-> Vector(v.array_, new_size, v.capacity_)]

\* AtOp as it would be with `index > size_` for the range check; the read
\* one past the capacity yields no written value.
AtOpOffByOne(h, v, index) ==
    IF index > v.size_
    THEN [thrown |-> TRUE, val |-> Uninit]
    ELSE [thrown |-> FALSE,
          val |-> IF index < v.capacity_ THEN Get(h, v.array_, index) ELSE Uninit]

\* Type& At(size_t index): throws std::out_of_range or returns array_[index]
AtOp(h, v, index) ==
    IF index >= v.size_
    THEN [thrown |-> TRUE, val |-> Uninit]
    ELSE [thrown |-> FALSE, val |-> Get(h, v.array_, index)]

\* --------------------------------- calls outside their precondition (debug)
\* size_t values: a negative number s stands for 2^64 + s, so that 0 - 1 is
\* the largest size_t.  SizeLess is < on size_t.
SizeLess(a, b) == IF (a < 0) = (b < 0) THEN a < b ELSE b < 0

\* Type& operator[](size_t index) with assert enabled: the assertion
\* index < size_ aborts the program, otherwise array_[index] is returned.
IndexOp(h, v, index) ==
    IF ~SizeLess(index, v.size_)
    THEN [asserted |-> TRUE, val |-> Uninit]
    ELSE [asserted |-> FALSE, val |-> Get(h, v.array_, index)]

\* void PopBack() with assert enabled: the assertion size_ > 0 aborts the
\* program, otherwise size_ is decremented.
PopBackOpDebug(h, v) ==
    IF ~(v.size_ > 0)
    THEN [h |-> h, v |-> v, asserted |-> TRUE]
    ELSE [h |-> h, v |-> Vector(v.array_, v.size_ - 1, v.capacity_), asserted |-> FALSE]

\* Iterator Erase(ConstIterator pos) for any pos in [begin(), end()]: the
\* function has no assertion.  index < size_ - 1 is computed in size_t; when
\* it holds for an empty vector, std::move is called on the range
\* [begin() + 1, end()), which is not a valid range: the behaviour is
\* undefined, and the program either crashes there or moves nothing and
\* goes on to --size_, as continues says.
EraseOpUnchecked(h, v, index, continues) ==
    IF SizeLess(index, v.size_ - 1)
    THEN IF index + 1 <= v.size_
         THEN [h |-> StdMove(h, v.array_, index + 1, v.size_, v.array_, index),
               v |-> Vector(v.array_, v.size_ - 1, v.capacity_), crashed |-> FALSE]
         ELSE IF continues
              THEN [h |-> h, v |-> Vector(v.array_, v.size_ - 1, v.capacity_),
                    crashed |-> FALSE]
              ELSE [h |-> h, v |-> v, crashed |-> TRUE]
    ELSE [h |-> h, v |-> Vector(v.array_, v.size_ - 1, v.capacity_), crashed |-> FALSE]

\* ------------------------------------------- calls that end in an exception
\* For an element type whose constructors can throw.  A moved-from element is
\* valid but unspecified: it keeps its value (the move was a copy) or is left
\* as the default value (the move emptied it), as emptied says.
MovedFrom(x, emptied) == IF emptied THEN DefaultValue ELSE x

\* std::move(first, lst, d_first) from the array at sp into the array at dp,
\* with the effect on the elements moved from.
RECURSIVE StdMoveFrom(_, _, _, _, _, _, _)
StdMoveFrom(h, sp, first, lst, dp, d, emptied) ==
    IF first >= lst THEN h
    ELSE StdMoveFrom(Put(Put(h, dp, d, Get(h, sp, first)),
                         sp, first, MovedFrom(Get(h, sp, first), emptied)),
                     sp, first + 1, lst, dp, d + 1, emptied)

\* PushBack with size_ = capacity_ that throws: at "alloc" from
\* ArrayPtr<Type> new_array(new_capacity), at "construct" from
\* new(array_.Get() + size_) Type(std::move(item)), which runs after the new
\* array was swapped in and the old one released.
PushBackOpThrows(h, v, at, emptied) ==
    IF at = "alloc" THEN [h |-> h, v |-> v]
    ELSE LET new_capacity == GrowCapacity(v.capacity_)
             na == NewArray(h, new_capacity)
             h1 == StdMoveFrom(na.h, v.array_, 0, v.size_, na.p, 0, emptied)
         IN [h |-> DeleteArray(h1, v.array_), v |-> Vector(na.p, v.size_, new_capacity)]

\* Insert with size_ = capacity_ that throws: at "alloc" from the allocation,
\* at "construct" from new(new_array.Get() + index) Type(value), which runs
\* after [begin, begin + index) was moved out of the vector's array; the new
\* array is released by the unwinding.
InsertOpThrows(h, v, index, at, emptied) ==
    IF at = "alloc" THEN [h |-> h, v |-> v]
    ELSE LET na == NewArray(h, GrowCapacity(v.capacity_))
             h1 == StdMoveFrom(na.h, v.array_, 0, index, na.p, 0, emptied)
         IN [h |-> DeleteArray(h1, na.p), v |-> v]

\* Reserve(new_capacity) with new_capacity > capacity_ whose allocation throws.
ReserveOpThrows(h, v, new_capacity) == [h |-> h, v |-> v]

\* Resize(new_size) with new_size > capacity_ that throws: at "alloc" from the
\* allocation, at "construct" from new(new_array.Get() + i) Type(), which runs
\* after [begin, end) was moved out of the vector's array.
ResizeOpThrows(h, v, new_size, at, emptied) ==
    IF at = "alloc" THEN [h |-> h, v |-> v]
    ELSE LET na == NewArray(h, new_size)
             h1 == StdMoveFrom(na.h, v.array_, 0, v.size_, na.p, 0, emptied)
         IN [h |-> DeleteArray(h1, na.p), v |-> v]

\* ------------------------------------------------- two-object operations
\* SwapOp as it would be without line 126: the capacities stay behind.
SwapOpKeepsCapacity(h, l, r) ==
    [h |-> h, l |-> Vector(r.array_, r.size_, l.capacity_),
     r |-> Vector(l.array_, l.size_, r.capacity_)]

\* void swap(SimpleVector& other) noexcept: l is *this, r is other.
SwapOp(h, l, r) ==
    [h |-> h, l |-> Vector(r.array_, r.size_, r.capacity_),
     r |-> Vector(l.array_, l.size_, l.capacity_)]

\* CopyAssignOp as it would be without line 59: the copy is made and dropped.
CopyAssignOpNoSwap(h, l, r) ==
    LET copy == CtorCopy(h, r)
    IN [h |-> DeleteArray(copy.h, copy.v.array_), l |-> l, r |-> r]

\* operator=(const SimpleVector& rhs) with this != &rhs: the temporary copy,
\* swap(copy), and the destructor of copy, which now owns the old array.
CopyAssignOp(h, l, r) ==
    LET copy == CtorCopy(h, r)
        sw == SwapOp(copy.h, l, copy.v)
    IN [h |-> DeleteArray(sw.h, sw.r.array_), l |-> sw.l, r |-> r]

\* operator=(const SimpleVector& rhs) with this != &rhs when the construction
\* of copy on line 58 throws: at the allocation of its array (copied = -1) or
\* at the copy of element `copied` on line 47, after which the array of the
\* unfinished copy is released.  Line 59 is not reached.
CopyAssignOpThrows(h, l, r, copied) ==
    IF copied < 0 THEN [h |-> h, l |-> l, r |-> r]
    ELSE LET na == NewArray(h, CopyCapacity(r))
             h1 == StdMove(na.h, r.array_, 0, copied, na.p, 0)
         IN [h |-> DeleteArray(h1, na.p), l |-> l, r |-> r]

\* ArrayPtr& operator=(ArrayPtr&& rhs): releases the owned array, takes
\* rhs's, leaves rhs null.
ArrayPtrMoveAssign(h, lp, rp) == [h |-> DeleteArray(h, lp), lp |-> rp, rp |-> Null]

\* MoveAssignOp as it would be with `size_ = rhs.size_` on line 67: the
\* source keeps its size.
MoveAssignOpKeepsSize(h, l, r) ==
    LET a == ArrayPtrMoveAssign(h, l.array_, r.array_)
    IN [h |-> a.h, l |-> Vector(a.lp, r.size_, r.capacity_),
        r |-> Vector(a.rp, r.size_, 0)]

\* operator=(SimpleVector&& rhs) with this != &rhs
MoveAssignOp(h, l, r) ==
    LET a == ArrayPtrMoveAssign(h, l.array_, r.array_)
    IN [h |-> a.h, l |-> Vector(a.lp, r.size_, r.capacity_), r |-> Vector(a.rp, 0, 0)]

\* ~SimpleVector(): the implicit destructor runs ~ArrayPtr().
DtorOp(h, v) == [h |-> DeleteArray(h, v.array_)]

\* std::equal(first1, last1, first2) over the arrays at lp and rp.
RECURSIVE StdEqual(_, _, _, _, _, _)
StdEqual(h, lp, first1, last1, rp, first2) ==
    IF first1 = last1 THEN TRUE
    ELSE IF Get(h, lp, first1) # Get(h, rp, first2) THEN FALSE
    ELSE StdEqual(h, lp, first1 + 1, last1, rp, first2 + 1)

\* std::lexicographical_compare(first1, last1, first2, last2).
RECURSIVE StdLexicographicalCompare(_, _, _, _, _, _, _)
StdLexicographicalCompare(h, lp, first1, last1, rp, first2, last2) ==
    IF first1 = last1 \/ first2 = last2 THEN first1 = last1 /\ first2 # last2
    ELSE IF Get(h, lp, first1) < Get(h, rp, first2) THEN TRUE
    ELSE IF Get(h, rp, first2) < Get(h, lp, first1) THEN FALSE
    ELSE StdLexicographicalCompare(h, lp, first1 + 1, last1, rp, first2 + 1, last2)

\* operator== that compares the common prefix and forgets the sizes.
OpEqualIgnoresSize(h, lhs, rhs) ==
    StdEqual(h, lhs.array_, 0, IF lhs.size_ <= rhs.size_ THEN lhs.size_ ELSE rhs.size_,
             rhs.array_, 0)

\* operator==(lhs, rhs): the sizes first, then std::equal over lhs.
OpEqual(h, lhs, rhs) ==
    /\ lhs.size_ = rhs.size_
    /\ StdEqual(h, lhs.array_, 0, lhs.size_, rhs.array_, 0)

\* operator!=(lhs, rhs)
OpNotEqual(h, lhs, rhs) == ~OpEqual(h, lhs, rhs)

\* operator<(lhs, rhs)
OpLess(h, lhs, rhs) ==
    StdLexicographicalCompare(h, lhs.array_, 0, lhs.size_, rhs.array_, 0, rhs.size_)

\* operator<= written as !(lhs < rhs).
OpLessEqualNotLess(h, lhs, rhs) == ~OpLess(h, lhs, rhs)

\* operator<=(lhs, rhs)
OpLessEqual(h, lhs, rhs) == ~OpLess(h, rhs, lhs)

\* operator>(lhs, rhs)
OpGreater(h, lhs, rhs) == OpLess(h, rhs, lhs)

\* operator>=(lhs, rhs)
OpGreaterEqual(h, lhs, rhs) == ~OpLess(h, lhs, rhs)

\* ------------------------------------------------------------------ actions
Max(a, b) == IF a >= b THEN a ELSE b
Min(a, b) == IF a <= b THEN a ELSE b

\* What the last call was: the operation, its object, its arguments, the
\* branch of the code it took and what it returned.
Log(op, who, from, arg, val, ref, path, itb, iti) ==
    [op |-> op, who |-> who, from |-> from, arg |-> arg, val |-> val, ref |-> ref,
     path |-> path, itb |-> itb, iti |-> iti]

\* All initializer lists over vals of length at most n.
Lists(n, vals) == UNION {[1..k -> vals] : k \in 0..n}

Set(n, r) == [vec EXCEPT ![n] = Alive(r.v)]

\* Addresses are compared only for equality, so the state is kept up to a
\* renumbering of them: after every call the array of A is at address 1 and
\* the array of B at address 2, and the other addresses keep their order,
\* arrays that nobody owns first.  Renumbering(h, v) maps each address of
\* heap h to its new one, for the vectors v.
Renumbering(h, v) ==
    LET pa == v["A"].array_
        pb == v["B"].array_
        taken == (IF pa # Null THEN {1} ELSE {}) \cup
                 (IF pb # Null /\ pb # pa THEN {2} ELSE {})
        rest == BufIds \ {pa, pb}
        targets == BufIds \ taken
        key(b) == IF h[b] # <<>> THEN b ELSE NBuf + b
        rank(b) == Cardinality({c \in rest : key(c) < key(b)})
        nth(k) == CHOOSE t \in targets : Cardinality({u \in targets : u < t}) = k
    IN [b \in BufIds |-> IF b = pa THEN 1 ELSE IF b = pb THEN 2 ELSE nth(rank(b))]

\* The address p of heap h after the renumbering.
Relocated(h, v, p) == IF p = Null THEN Null ELSE Renumbering(h, v)[p]

\* The arrays of A and B are at their addresses already and no other array
\* is allocated: the renumbering changes nothing.
InPlace(h, v) ==
    /\ v["A"].array_ \in {Null, 1}
    /\ v["B"].array_ \in {Null, 2, v["A"].array_}
    /\ \A b \in BufIds \ {v["A"].array_, v["B"].array_} : h[b] = <<>>

\* The call ends with heap h and vectors v.
Commit(h, v) ==
    IF InPlace(h, v)
    THEN heap' = h /\ vec' = v
    ELSE LET f == Renumbering(h, v)
         IN /\ heap' = [t \in BufIds |-> h[CHOOSE b \in BufIds : f[b] = t]]
            /\ vec' = [n \in Names |->
                         [v[n] EXCEPT !.array_ = IF @ = Null THEN Null ELSE f[@]]]

\* The record of a call on n that only names the object it changed.
Touched(n) == Log("Mutate", n, n, 0, 0, -1, "", Null, 0)

\* n.PushBack(item)
PushBackStep(n, item) ==
    /\ vec[n].alive
    /\ LET r == PushBackOp(heap, vec[n], item)
       IN Commit(r.h, Set(n, r))

PushBack(n, item) ==
    /\ PushBackStep(n, item)
    /\ last' = Log("PushBack", n, n, 0, item, -1,
                   IF vec[n].size_ = vec[n].capacity_ THEN "grow" ELSE "inplace", Null, 0)

\* n.PopBack(), within its precondition size_ > 0
PopBackStep(n) ==
    /\ vec[n].alive
    /\ vec[n].size_ > 0
    /\ LET r == PopBackOp(heap, vec[n])
       IN Commit(r.h, Set(n, r))

PopBack(n) ==
    /\ PopBackStep(n)
    /\ last' = Log("PopBack", n, n, 0, 0, -1, "", Null, 0)

\* n.Insert(n.begin() + index, value), within its precondition
\* index <= size_: value is an object holding x (ref = -1) or the element
\* n[ref], whose value is x when the call is made.
InsertStep(n, index, x, ref) ==
    /\ vec[n].alive
    /\ index \in 0..vec[n].size_
    /\ ref \in -1..(vec[n].size_ - 1)
    /\ ref >= 0 => x = Get(heap, vec[n].array_, ref)
    /\ LET r == InsertOp(heap, vec[n], index, x, ref)
       IN Commit(r.h, Set(n, r))

Insert(n, index, x, ref) ==
    /\ InsertStep(n, index, x, ref)
    /\ LET r == InsertOp(heap, vec[n], index, x, ref)
       IN last' = Log("Insert", n, n, index, x, ref,
                      IF vec[n].size_ = vec[n].capacity_ THEN "grow" ELSE "inplace",
                      Relocated(r.h, Set(n, r), r.itb), r.iti)

\* n.Erase(n.begin() + index), within its precondition index < size_
EraseStep(n, index) ==
    /\ vec[n].alive
    /\ index \in 0..(vec[n].size_ - 1)
    /\ LET r == EraseOp(heap, vec[n], index)
       IN Commit(r.h, Set(n, r))

Erase(n, index) ==
    /\ EraseStep(n, index)
    /\ LET r == EraseOp(heap, vec[n], index)
       IN last' = Log("Erase", n, n, index, 0, -1,
                      IF index < vec[n].size_ - 1 THEN "shift" ELSE "last",
                      Relocated(r.h, Set(n, r), r.itb), r.iti)

\* n.Reserve(new_capacity)
ReserveStep(n, new_capacity) ==
    /\ vec[n].alive
    /\ LET r == ReserveOp(heap, vec[n], new_capacity)
       IN Commit(r.h, Set(n, r))

Reserve(n, new_capacity) ==
    /\ ReserveStep(n, new_capacity)
    /\ last' = Log("Reserve", n, n, new_capacity, 0, -1,
                   IF new_capacity > vec[n].capacity_ THEN "grow" ELSE "noop", Null, 0)

\* n.Clear()
ClearStep(n) ==
    /\ vec[n].alive
    /\ LET r == ClearOp(heap, vec[n])
       IN Commit(r.h, Set(n, r))

Clear(n) ==
    /\ ClearStep(n)
    /\ last' = Log("Clear", n, n, 0, 0, -1, "", Null, 0)

\* How many of the slots [size_, new_size) within the array hold, before a
\* Resize, a value that was written earlier and is not the default one.
StaleExposed(h, v, new_size) ==
    Cardinality({i \in (v.size_ + 1)..Min(new_size, v.capacity_) :
                    h[v.array_][i] \notin {Uninit, DefaultValue}})

\* n.Resize(new_size)
ResizeStep(n, new_size) ==
    /\ vec[n].alive
    /\ LET r == ResizeOp(heap, vec[n], new_size)
       IN Commit(r.h, Set(n, r))

Resize(n, new_size) ==
    /\ ResizeStep(n, new_size)
    /\ last' = Log("Resize", n, n, new_size, StaleExposed(heap, vec[n], new_size), -1,
                   IF new_size > vec[n].capacity_ THEN "grow"
                   ELSE IF new_size > vec[n].size_ THEN "extend" ELSE "shrink", Null, 0)

\* n.At(index)
At(n, index) ==
    /\ vec[n].alive
    /\ LET r == AtOp(heap, vec[n], index)
       IN last' = Log("At", n, n, index, r.val, -1,
                      IF r.thrown THEN "throw" ELSE "return", Null, 0)
    /\ UNCHANGED <<heap, vec>>

\* SimpleVector n(m);
CopyConstruct(n, m) ==
    /\ ~vec[n].alive /\ vec[m].alive
    /\ LET r == CtorCopy(heap, vec[m])
       IN /\ Commit(r.h, Set(n, r))
          /\ last' = Log("CopyConstruct", n, m, 0, 0, -1, "", Null, 0)

\* SimpleVector n(std::move(m));
MoveConstruct(n, m) ==
    /\ ~vec[n].alive /\ vec[m].alive
    /\ LET r == CtorMove(heap, vec[m])
       IN /\ Commit(r.h, [vec EXCEPT ![n] = Alive(r.v), ![m] = Alive(r.o)])
          /\ last' = Log("MoveConstruct", n, m, 0, 0, -1, "", Null, 0)

\* n = m;
CopyAssign(n, m) ==
    /\ vec[n].alive /\ vec[m].alive
    /\ IF n # m
       THEN LET r == CopyAssignOp(heap, vec[n], vec[m])
            IN Commit(r.h, [vec EXCEPT ![n] = Alive(r.l), ![m] = Alive(r.r)])
       ELSE UNCHANGED <<heap, vec>>
    /\ last' = Log("CopyAssign", n, m, 0, 0, -1, IF n # m THEN "copy" ELSE "self", Null, 0)

\* n = m; when making the temporary copy of m throws.
CopyAssignFails(n, m, copied) ==
    /\ vec[n].alive /\ vec[m].alive /\ n # m
    /\ copied \in -1..(vec[m].size_ - 1)
    /\ LET r == CopyAssignOpThrows(heap, vec[n], vec[m], copied)
       IN Commit(r.h, [vec EXCEPT ![n] = Alive(r.l), ![m] = Alive(r.r)])
    /\ last' = Log("CopyAssign", n, m, 0, 0, -1, "throw", Null, 0)

\* n = std::move(m);
MoveAssign(n, m) ==
    /\ vec[n].alive /\ vec[m].alive
    /\ IF n # m
       THEN LET r == MoveAssignOp(heap, vec[n], vec[m])
            IN Commit(r.h, [vec EXCEPT ![n] = Alive(r.l), ![m] = Alive(r.r)])
       ELSE UNCHANGED <<heap, vec>>
    /\ last' = Log("MoveAssign", n, m, 0, 0, -1, IF n # m THEN "move" ELSE "self", Null, 0)

\* n.swap(m);
Swap(n, m) ==
    /\ vec[n].alive /\ vec[m].alive
    /\ LET r == SwapOp(heap, vec[n], vec[m])
       IN Commit(r.h, IF n # m THEN [vec EXCEPT ![n] = Alive(r.l), ![m] = Alive(r.r)]
                      ELSE vec)
    /\ last' = Log("Swap", n, m, 0, 0, -1, "", Null, 0)

\* n goes out of scope.
Destroy(n) ==
    /\ vec[n].alive
    /\ Commit(DtorOp(heap, vec[n]).h, [vec EXCEPT ![n] = Dead])
    /\ last' = Log("Destroy", n, n, 0, 0, -1, "", Null, 0)

\* n[index] in a debug build, for any index.
Index(n, index) ==
    /\ vec[n].alive
    /\ LET r == IndexOp(heap, vec[n], index)
       IN last' = Log("Index", n, n, index, r.val, -1,
                      IF r.asserted THEN "assert" ELSE "return", Null, 0)
    /\ UNCHANGED <<heap, vec>>

\* n.PopBack() in a debug build on an empty vector.
PopBackEmpty(n) ==
    /\ vec[n].alive /\ vec[n].size_ = 0
    /\ LET r == PopBackOpDebug(heap, vec[n])
       IN /\ Commit(r.h, Set(n, r))
          /\ last' = Log("PopBack", n, n, 0, 0, -1,
                         IF r.asserted THEN "assert" ELSE "", Null, 0)

\* n.Erase(n.end()) in a debug build: the position is the end position, of
\* an empty vector or of one with elements.
EraseEnd(n, continues) ==
    /\ vec[n].alive
    /\ LET index == vec[n].size_
           r == EraseOpUnchecked(heap, vec[n], index, continues)
       IN /\ Commit(r.h, Set(n, r))
          /\ last' = Log("Erase", n, n, index, 0, -1,
                         IF r.crashed THEN "crash"
                         ELSE IF r.v.size_ < 0 THEN "wrap" ELSE "end", Null, 0)

\* Where a buffer-replacing call can throw.
FailurePoints == {"alloc", "construct"}

\* n.PushBack(item) throws while growing.
PushBackThrows(n, at, emptied) ==
    /\ vec[n].alive /\ vec[n].size_ = vec[n].capacity_
    /\ LET r == PushBackOpThrows(heap, vec[n], at, emptied)
       IN Commit(r.h, Set(n, r))
    /\ last' = Log("PushBackThrows", n, n, 0, 0, -1, at, Null, 0)

\* n.Insert(begin() + index, value) throws while growing.
InsertThrows(n, index, at, emptied) ==
    /\ vec[n].alive /\ vec[n].size_ = vec[n].capacity_ /\ index <= vec[n].size_
    /\ LET r == InsertOpThrows(heap, vec[n], index, at, emptied)
       IN Commit(r.h, Set(n, r))
    /\ last' = Log("InsertThrows", n, n, index, 0, -1, at, Null, 0)

\* n.Reserve(new_capacity) throws while allocating.
ReserveThrows(n, new_capacity) ==
    /\ vec[n].alive /\ new_capacity > vec[n].capacity_
    /\ LET r == ReserveOpThrows(heap, vec[n], new_capacity)
       IN Commit(r.h, Set(n, r))
    /\ last' = Log("ReserveThrows", n, n, new_capacity, 0, -1, "alloc", Null, 0)

\* n.Resize(new_size) throws while growing.
ResizeThrows(n, new_size, at, emptied) ==
    /\ vec[n].alive /\ new_size > vec[n].capacity_
    /\ LET r == ResizeOpThrows(heap, vec[n], new_size, at, emptied)
       IN Commit(r.h, Set(n, r))
    /\ last' = Log("ResizeThrows", n, n, new_size, 0, -1, at, Null, 0)

\* ----------------------------------------------------------- specifications
EmptyHeap == [b \in BufIds |-> <<>>]

\* A is constructed by r, B is not constructed yet; arg is the size or capacity
\* given to the constructor and val the value or the list given to it.
Start(r, op, arg, val) ==
    /\ heap = r.h
    /\ vec = [n \in Names |-> IF n = "A" THEN Alive(r.v) ELSE Dead]
    /\ last = Log(op, "A", "A", arg, val, -1, "", Null, 0)

\* A is built by any of the constructors, with capacity at most maxcap and
\* elements from vals.
InitWith(maxcap, vals) ==
    \/ Start(CtorDefault(EmptyHeap), "CtorDefault", 0, 0)
    \/ \E k \in 0..maxcap : Start(CtorSize(EmptyHeap, k), "CtorSize", k, 0)
    \/ \E c \in 0..maxcap : Start(CtorReserve(EmptyHeap, c), "CtorReserve", c, 0)
    \/ \E k \in 0..maxcap, x \in vals : Start(CtorFill(EmptyHeap, k, x), "CtorFill", k, x)
    \/ \E init \in Lists(maxcap, vals) :
          Start(CtorInit(EmptyHeap, init), "CtorInit", Len(init), init)

\* A call that may grow n's array keeps the capacity within maxcap.
Fits(n, maxcap) ==
    vec[n].size_ < vec[n].capacity_ \/ GrowCapacity(vec[n].capacity_) <= maxcap

\* The mutating calls on the vector A; the argument of Insert is an object
\* outside the vector.
Mutate ==
    \/ \E x \in Values : Fits("A", MaxCap) /\ PushBack("A", x)
    \/ PopBack("A")
    \/ \E index \in 0..MaxCap, x \in Values : Fits("A", MaxCap) /\ Insert("A", index, x, -1)
    \/ \E index \in 0..MaxCap : Erase("A", index)
    \/ \E c \in 0..MaxCap : Reserve("A", c)
    \/ Clear("A")
    \/ \E m \in 0..MaxCap : Resize("A", m)

\* A.Insert(pos, A[ref]): the argument is an element of the vector itself.
InsertElement ==
    \E index \in 0..MaxCap, x \in Values, ref \in 0..MaxCap :
       Fits("A", MaxCap) /\ Insert("A", index, x, ref)

\* The checked reads of A.
Observe == \E index \in 0..(MaxCap + 1) : At("A", index)

\* One vector, every single-object operation.
Init == InitWith(MaxCap, Values)
Next == Mutate \/ InsertElement \/ Observe
Spec == Init /\ [][Next]_vars

\* Any mutating call on n, recorded only as a change of n.
MutateAny(n) ==
    /\ \/ \E x \in ValuesTwo : Fits(n, MaxCapTwo) /\ PushBackStep(n, x)
       \/ PopBackStep(n)
       \/ \E index \in 0..MaxCapTwo, x \in ValuesTwo :
             Fits(n, MaxCapTwo) /\ InsertStep(n, index, x, -1)
       \/ \E index \in 0..MaxCapTwo : EraseStep(n, index)
       \/ \E c \in 0..MaxCapTwo : ReserveStep(n, c)
       \/ ClearStep(n)
       \/ \E m \in 0..MaxCapTwo : ResizeStep(n, m)
    /\ last' = Touched(n)

\* No call has thrown yet: a run is followed up to its first exception.
NothingThrown == last.path # "throw"

\* Two vectors: B is copy- or move-constructed from A and destroyed again,
\* both are mutated, assigned to each other and swapped.
InitTwo == InitWith(MaxCapTwo, ValuesTwo)
NextTwo ==
    \/ \E n \in Names : NothingThrown /\ MutateAny(n)
    \/ NothingThrown /\ CopyConstruct("B", "A")
    \/ NothingThrown /\ MoveConstruct("B", "A")
    \/ \E n, m \in Names : NothingThrown /\ CopyAssign(n, m)
    \/ \E n, m \in Names, copied \in -1..(MaxCapTwo - 1) :
          NothingThrown /\ CopyAssignFails(n, m, copied)
    \/ \E n, m \in Names : NothingThrown /\ MoveAssign(n, m)
    \/ \E n, m \in Names : NothingThrown /\ Swap(n, m)
    \/ NothingThrown /\ Destroy("B")
SpecTwo == InitTwo /\ [][NextTwo]_vars

\* A default-constructed vector that is only pushed to.
InitPush == Start(CtorDefault(EmptyHeap), "CtorDefault", 0, 0)
NextPush == \E x \in Values : vec["A"].size_ < MaxPushes /\ PushBack("A", x)
SpecPush == InitPush /\ [][NextPush]_vars

\* One vector whose calls may throw; the exception is caught and the vector
\* is used further.
Throw ==
    \/ \E at \in FailurePoints, emptied \in BOOLEAN :
          Fits("A", MaxCap) /\ PushBackThrows("A", at, emptied)
    \/ \E index \in 0..MaxCap, at \in FailurePoints, emptied \in BOOLEAN :
          Fits("A", MaxCap) /\ InsertThrows("A", index, at, emptied)
    \/ \E c \in 0..MaxCap : ReserveThrows("A", c)
    \/ \E m \in 0..MaxCap, at \in FailurePoints, emptied \in BOOLEAN :
          ResizeThrows("A", m, at, emptied)
NextFail == Mutate \/ Throw
SpecFail == Init /\ [][NextFail]_vars

\* One vector in a debug build, used inside and outside the preconditions of
\* its calls.  The run ends when the program is aborted or has crashed, and
\* is not followed beyond a wrapped size.
Running == last.path \notin {"assert", "crash", "wrap"}
NextDebug ==
    \/ Running /\ Mutate
    \/ \E index \in 0..(MaxCap + 1) : Running /\ Index("A", index)
    \/ Running /\ PopBackEmpty("A")
    \/ \E continues \in BOOLEAN : Running /\ EraseEnd("A", continues)
SpecDebug == Init /\ [][NextDebug]_vars

\* ------------------------------------------------------------------ claims
\* C1: in every state reached by constructors and operations called within
\* their preconditions, every constructed vector has 0 <= size <= capacity.
C1_SizeWithinCapacity ==
    \A n \in Names :
        vec[n].alive => 0 <= vec[n].size_ /\ vec[n].size_ <= vec[n].capacity_

\* Both vectors exist, one is full and the other is not, after an assignment
\* or a swap between them.
C1_Witness ==
    /\ vec["A"].alive /\ vec["B"].alive
    /\ last.op \in {"CopyAssign", "MoveAssign", "Swap"} /\ last.who # last.from
    /\ \E n \in Names : vec[n].size_ = vec[n].capacity_ /\ vec[n].capacity_ = MaxCapTwo
    /\ \E n \in Names : vec[n].size_ < vec[n].capacity_

\* C2: PushBack(v) on size n, capacity c, elements e leaves size n+1, the
\* elements e followed by v, and capacity c when n < c, max(1, 2c) when n = c.
C2_PushBack ==
    [][last'.op = "PushBack" =>
        LET v == vec["A"]
            w == vec'["A"]
        IN /\ w.size_ = v.size_ + 1
           /\ Elems(heap', w) = Append(Elems(heap, v), last'.val)
           /\ w.capacity_ = IF v.size_ < v.capacity_ THEN v.capacity_
                            ELSE Max(1, 2 * v.capacity_)]_vars

\* A PushBack that doubled the capacity from 2 to 4 and moved two elements.
C2_Witness ==
    /\ last.op = "PushBack" /\ last.path = "grow"
    /\ vec["A"].size_ = 3 /\ vec["A"].capacity_ = 4

\* The smallest power of two that is at least k (0 for k = 0).
RECURSIVE PowerOfTwoAtLeast(_, _)
PowerOfTwoAtLeast(k, p) == IF k = 0 THEN 0 ELSE IF p >= k THEN p ELSE PowerOfTwoAtLeast(k, 2 * p)

\* The capacities the spec lists for pushes 1..5.
FivePushes == <<1, 2, 4, 4, 8>>

\* C3: from a default-constructed vector, after the k-th PushBack size is k
\* and capacity is the smallest power of two >= k (1,2,4,4,8 for k = 1..5);
\* along the run capacity never decreases and changes only by doubling.
C3_PushSequence ==
    /\ [](LET k == vec["A"].size_
              c == vec["A"].capacity_
          IN /\ c = PowerOfTwoAtLeast(k, 1)
             /\ k \in 1..5 => c = FivePushes[k])
    /\ [][LET c == vec["A"].capacity_
              d == vec'["A"].capacity_
          IN /\ vec'["A"].size_ = vec["A"].size_ + 1
             /\ d >= c
             /\ d # c => d = Max(1, 2 * c)]_vars

\* The fifth push, which took the capacity from 4 to 8.
C3_Witness ==
    /\ last.op = "PushBack" /\ last.path = "grow"
    /\ vec["A"].size_ = 5 /\ vec["A"].capacity_ = 8

\* The sequence s with x put in front of its element at 0-based index i.
InsertAt(s, i, x) == SubSeq(s, 1, i) \o <<x>> \o SubSeq(s, i + 1, Len(s))
\* The sequence s without its element at 0-based index i.
RemoveAt(s, i) == SubSeq(s, 1, i) \o SubSeq(s, i + 2, Len(s))

\* What C4 says of one Insert step: size n+1, the value at index i, the
\* elements before i unchanged, the old [i, n) at [i+1, n+1), and the
\* returned iterator at begin() + i of the resulting array.
InsertPost ==
    LET v == vec["A"]
        w == vec'["A"]
    IN /\ w.size_ = v.size_ + 1
       /\ Elems(heap', w) = InsertAt(Elems(heap, v), last'.arg, last'.val)
       /\ last'.itb = w.array_ /\ last'.iti = last'.arg

\* C4: for every vector of size n and every i in 0..n, Insert(begin+i, v)
\* gives size n+1, element i equal to v, [0, i) unchanged, the old [i, n) at
\* [i+1, n+1) in order, on the reallocating and on the in-place path, and
\* returns begin+i of the resulting storage.
C4_Insert == [][last'.op = "Insert" => InsertPost]_vars

\* An Insert within the capacity whose argument is an element of the vector
\* behind the insertion point.
C4_AliasedInsert ==
    /\ last.op = "Insert" /\ last.path = "inplace" /\ last.ref > last.arg

\* Insert does what C4 says whenever its argument is not an element of the
\* vector it is called on.
C4_InsertOfOutsideValue == [][last'.op = "Insert" /\ last'.ref < 0 => InsertPost]_vars

\* C5: Erase(begin+i) with 0 <= i < n gives size n-1 and the original
\* sequence without index i, leaves capacity unchanged, and returns the
\* iterator at index i: the element that followed the erased one, or end()
\* when i was the last index.
C5_Erase ==
    [][last'.op = "Erase" =>
        LET v == vec["A"]
            w == vec'["A"]
            i == last'.arg
        IN /\ w.size_ = v.size_ - 1
           /\ Elems(heap', w) = RemoveAt(Elems(heap, v), i)
           /\ w.capacity_ = v.capacity_
           /\ last'.itb = w.array_ /\ last'.iti = i
           /\ i < v.size_ - 1 => Get(heap', last'.itb, last'.iti) = Get(heap, v.array_, i + 1)
           /\ i = v.size_ - 1 => last'.iti = w.size_]_vars

\* An Erase in the middle of three distinct-looking elements.
C5_Witness ==
    /\ last.op = "Erase" /\ last.path = "shift" /\ last.arg = 1
    /\ vec["A"].size_ = 2
    /\ Get(heap, vec["A"].array_, 0) # Get(heap, vec["A"].array_, 1)

\* C6: At(index) throws out_of_range for every index >= size, stale slots in
\* [size, capacity) included, and changes nothing; for index < size it
\* returns the element at that index.
C6_At ==
    [][last'.op = "At" =>
        LET v == vec["A"]
            i == last'.arg
        IN /\ heap' = heap /\ vec' = vec
           /\ i >= v.size_ => last'.path = "throw"
           /\ i < v.size_ => last'.path = "return" /\ last'.val = Elems(heap, v)[i + 1]]_vars

\* At threw for an index within the capacity whose slot holds a stale value.
C6_Witness ==
    /\ last.op = "At" /\ last.path = "throw"
    /\ last.arg >= vec["A"].size_ /\ last.arg < vec["A"].capacity_
    /\ Get(heap, vec["A"].array_, last.arg) \in Values

\* C7: Reserve(c) sets capacity to max(old capacity, c) and keeps size and
\* elements; a second Reserve(c) changes nothing; capacity is never lowered.
C7_Reserve ==
    [][last'.op = "Reserve" =>
        LET v == vec["A"]
            w == vec'["A"]
            again == ReserveOp(heap', w, last'.arg)
        IN /\ w.capacity_ = Max(v.capacity_, last'.arg)
           /\ w.capacity_ >= v.capacity_
           /\ w.size_ = v.size_
           /\ Elems(heap', w) = Elems(heap, v)
           /\ again.h = heap' /\ Alive(again.v) = w]_vars

\* A Reserve that reallocated a vector holding two elements.
C7_Witness ==
    /\ last.op = "Reserve" /\ last.path = "grow"
    /\ vec["A"].size_ >= 2 /\ vec["A"].capacity_ = last.arg

\* C8: Resize(m) on size n, capacity c leaves size m, elements [0, min(n, m))
\* unchanged, and capacity c when m <= c, exactly m when m > c.
C8_Resize ==
    [][last'.op = "Resize" =>
        LET v == vec["A"]
            w == vec'["A"]
            m == last'.arg
            k == Min(v.size_, m)
        IN /\ w.size_ = m
           /\ SubSeq(Elems(heap', w), 1, k) = SubSeq(Elems(heap, v), 1, k)
           /\ w.capacity_ = IF m <= v.capacity_ THEN v.capacity_ ELSE m]_vars

\* A growing Resize to a size that is not twice the old capacity.
C8_Witness ==
    /\ last.op = "Resize" /\ last.path = "grow"
    /\ vec["A"].capacity_ = 3 /\ vec["A"].size_ = 3
    /\ Get(heap, vec["A"].array_, 0) # DefaultValue

\* C9: after Resize(m) with m > n every element in [n, m) is the default
\* value, in place and on reallocation; values left in those slots by Clear,
\* PopBack, Erase or a shrinking Resize do not reappear.
C9_ResizeDefaults ==
    [][last'.op = "Resize" =>
        \A i \in vec["A"].size_..(last'.arg - 1) :
            Get(heap', vec'["A"].array_, i) = DefaultValue]_vars

\* An in-place Resize that exposed two slots holding stale non-default values.
C9_Witness ==
    /\ last.op = "Resize" /\ last.path = "extend" /\ last.val >= 2

\* C10: copy-constructing B from A gives B size = A.size, capacity = A.size
\* and A's elements in order, and leaves A unchanged; afterwards no mutating
\* call on one of the two changes the size, capacity or elements of the other.
C10_CopyIsolation ==
    [][/\ last'.op = "CopyConstruct" =>
            LET a == vec["A"]
                b == vec'["B"]
            IN /\ b.alive
               /\ b.size_ = a.size_ /\ b.capacity_ = a.size_
               /\ Elems(heap', b) = Elems(heap, a)
               /\ vec'["A"] = a /\ Slots(heap', a) = Slots(heap, a)
       /\ last'.op = "Mutate" =>
            \A o \in Names \ {last'.who} :
                /\ vec'[o] = vec[o]
                /\ Slots(heap', vec'[o]) = Slots(heap, vec[o])]_vars

\* B was copied from an A that holds elements and has spare capacity.
C10_Witness ==
    /\ last.op = "CopyConstruct"
    /\ vec["A"].size_ >= 1 /\ vec["A"].size_ < vec["A"].capacity_
    /\ Get(heap, vec["A"].array_, 0) # DefaultValue

\* C11: move-constructing or move-assigning from a distinct source S gives
\* the destination S's former size, capacity and elements and leaves S with
\* size 0 and capacity 0; move-assigning a vector to itself changes nothing.
C11_Move ==
    [][last'.op \in {"MoveConstruct", "MoveAssign"} =>
        LET s == vec[last'.from]
            d == vec'[last'.who]
        IN IF last'.who # last'.from
           THEN /\ d.alive
                /\ d.size_ = s.size_ /\ d.capacity_ = s.capacity_
                /\ Elems(heap', d) = Elems(heap, s)
                /\ vec'[last'.from].alive
                /\ vec'[last'.from].size_ = 0 /\ vec'[last'.from].capacity_ = 0
           ELSE /\ vec' = vec
                /\ Slots(heap', d) = Slots(heap, s)]_vars

\* A move assignment gave the destination two elements, the second one not
\* the default value, and left the source empty.
C11_Witness ==
    /\ last.op = "MoveAssign" /\ last.path = "move"
    /\ vec[last.who].size_ = 2 /\ Get(heap, vec[last.who].array_, 1) # DefaultValue
    /\ vec[last.from].size_ = 0 /\ vec[last.from].capacity_ = 0

\* C13: A.swap(B) gives A the former size, capacity and elements of B and B
\* those of A; swapping again restores both.
C13_Swap ==
    [][last'.op = "Swap" =>
        LET a == last'.who
            b == last'.from
            again == SwapOp(heap', vec'[a], vec'[b])
        IN /\ vec'[a].size_ = vec[b].size_ /\ vec'[a].capacity_ = vec[b].capacity_
           /\ Elems(heap', vec'[a]) = Elems(heap, vec[b])
           /\ vec'[b].size_ = vec[a].size_ /\ vec'[b].capacity_ = vec[a].capacity_
           /\ Elems(heap', vec'[b]) = Elems(heap, vec[a])
           /\ again.l.size_ = vec[a].size_ /\ again.l.capacity_ = vec[a].capacity_
           /\ Slots(again.h, again.l) = Slots(heap, vec[a])
           /\ again.r.size_ = vec[b].size_ /\ again.r.capacity_ = vec[b].capacity_
           /\ Slots(again.h, again.r) = Slots(heap, vec[b])]_vars

\* A swap between two vectors of different size and different capacity.
C13_Witness ==
    /\ last.op = "Swap" /\ last.who # last.from
    /\ vec["A"].size_ # vec["B"].size_ /\ vec["A"].capacity_ # vec["B"].capacity_
    /\ vec["A"].size_ > 0 /\ vec["B"].size_ > 0

\* C12: L = R with L distinct from R leaves L with size R.size, capacity
\* R.size and R's elements, and leaves R unchanged; L = L changes nothing; if
\* making the temporary copy fails, L is left unchanged.
C12_CopyAssign ==
    [][last'.op = "CopyAssign" =>
        LET l == vec[last'.who]
            r == vec[last'.from]
            m == vec'[last'.who]
        IN /\ last'.path = "copy" =>
                /\ last'.who # last'.from
                /\ m.size_ = r.size_ /\ m.capacity_ = r.size_
                /\ Elems(heap', m) = Elems(heap, r)
                /\ vec'[last'.from] = r /\ Slots(heap', r) = Slots(heap, r)
           /\ last'.path = "self" =>
                /\ last'.who = last'.from
                /\ vec' = vec /\ Slots(heap', m) = Slots(heap, l)
           /\ last'.path = "throw" =>
                /\ m = l /\ Slots(heap', m) = Slots(heap, l)
                /\ vec'[last'.from] = r /\ Slots(heap', r) = Slots(heap, r)]_vars

\* A copy assignment from a vector with spare capacity to another vector.
C12_Witness ==
    /\ last.op = "CopyAssign" /\ last.path = "copy"
    /\ vec[last.from].size_ >= 1 /\ vec[last.from].size_ < vec[last.from].capacity_
    /\ vec[last.who].capacity_ = vec[last.from].size_
    /\ Get(heap, vec[last.who].array_, 0) # DefaultValue

\* The lexicographic order on sequences: s is less than t when, after a common
\* prefix of length k, s has ended and t has not, or both go on and s goes on
\* with the smaller element.
LexLess(s, t) ==
    \E k \in 0..Min(Len(s), Len(t)) :
        /\ SubSeq(s, 1, k) = SubSeq(t, 1, k)
        /\ \/ k = Len(s) /\ k < Len(t)
           \/ k < Len(s) /\ k < Len(t) /\ s[k + 1] < t[k + 1]

\* C14: for any two vectors, operator== is equality of the live sequences and
\* operator< is their lexicographic order, whatever the capacities and the
\* slots at and after size hold.
C14_Comparison ==
    \A l, r \in Names :
        vec[l].alive /\ vec[r].alive =>
            /\ OpEqual(heap, vec[l], vec[r]) = (Elems(heap, vec[l]) = Elems(heap, vec[r]))
            /\ OpLess(heap, vec[l], vec[r]) = LexLess(Elems(heap, vec[l]), Elems(heap, vec[r]))

\* A is a proper prefix of B and has the same slots as B, the last of them
\* stale: A < B holds and A == B does not.
C14_Witness ==
    /\ vec["A"].alive /\ vec["B"].alive
    /\ vec["A"].size_ = 1 /\ vec["B"].size_ = 2
    /\ Slots(heap, vec["A"]) = Slots(heap, vec["B"])
    /\ OpLess(heap, vec["A"], vec["B"]) /\ ~OpEqual(heap, vec["A"], vec["B"])

C16_Constructors ==
    LET v == vec["A"]
        e == Elems(heap, v)
    IN /\ last.op = "CtorDefault" => v.size_ = 0 /\ v.capacity_ = 0
       /\ last.op = "CtorSize" =>
              /\ v.size_ = last.arg /\ v.capacity_ = last.arg
              /\ e = [i \in 1..last.arg |-> DefaultValue]
       /\ last.op = "CtorFill" =>
              /\ v.size_ = last.arg /\ v.capacity_ = last.arg
              /\ e = [i \in 1..last.arg |-> last.val]
       /\ last.op = "CtorInit" =>
              /\ v.size_ = Len(last.val) /\ v.capacity_ = Len(last.val)
              /\ e = last.val
       /\ last.op = "CtorReserve" =>
              /\ v.size_ = 0 /\ v.capacity_ = last.arg
              /\ Len(Slots(heap, v)) = last.arg

\* A vector was built from a list of three elements that is not its own
\* reverse.
C16_Witness ==
    /\ last.op = "CtorInit" /\ Len(last.val) = 3 /\ last.val[1] # last.val[3]
    /\ vec["A"].size_ = 3 /\ Get(heap, vec["A"].array_, 0) = last.val[1]

\* The calls that ended in an exception.
Thrown == {"PushBackThrows", "InsertThrows", "ReserveThrows", "ResizeThrows"}

\* C17: when a PushBack, Insert, Reserve or Resize that replaces the array
\* throws, from the allocation of the new array or from the construction of
\* an element, the vector's size, capacity and elements [0, size) are what
\* they were before the call.
C17_FailureLeavesState ==
    [][last'.op \in Thrown =>
        LET v == vec[last'.who]
            w == vec'[last'.who]
        IN /\ w.size_ = v.size_ /\ w.capacity_ = v.capacity_
           /\ Elems(heap', w) = Elems(heap, v)]_vars

\* PushBack threw from the construction of the new element and the vector,
\* which was full with two elements, is left with capacity 4.
C17_Witness ==
    /\ last.op = "PushBackThrows" /\ last.path = "construct"
    /\ vec["A"].size_ = 2 /\ vec["A"].capacity_ = 4

\* The call just made was outside its precondition: operator[] with
\* index >= size, PopBack on an empty vector, Erase at the end position (of
\* an empty vector or not).
ContractViolated ==
    \/ last'.op = "Index" /\ last'.arg >= vec[last'.who].size_
    \/ last'.op = "PopBack" /\ vec[last'.who].size_ = 0
    \/ last'.op = "Erase" /\ last'.arg >= vec[last'.who].size_

\* C18: in a debug build every call outside its precondition ends in a failed
\* assertion with the vector as it was, and never leaves a size that has
\* wrapped around or exceeds the capacity.
C18_ViolationsAssert ==
    [][ContractViolated =>
        /\ last'.path = "assert"
        /\ heap' = heap /\ vec' = vec
        /\ vec'[last'.who].size_ >= 0
        /\ vec'[last'.who].size_ <= vec'[last'.who].capacity_]_vars

\* Erase at the end position of a vector of two elements returned without an
\* assertion and left one element.
C18_Witness ==
    /\ last.op = "Erase" /\ last.path = "end" /\ last.arg = 2
    /\ vec["A"].size_ = 1

\* Erase on an empty vector went on and left the size wrapped around.
C18_WrappedSize ==
    /\ last.op = "Erase" /\ last.path = "wrap"
    /\ vec["A"].size_ = -1 /\ SizeLess(vec["A"].capacity_, vec["A"].size_)

\* The assertions that exist do what the claim says: operator[] with
\* index >= size and PopBack on an empty vector end in a failed assertion
\* and change nothing.
C18_AssertedCalls ==
    [][(ContractViolated /\ last'.op \in {"Index", "PopBack"}) =>
        last'.path = "assert" /\ heap' = heap /\ vec' = vec]_vars

\* What Clear and PopBack do to size, capacity, elements and storage: size
\* becomes 0 or one less, the capacity, the array and the elements that
\* remain are as before.
ShrinkKeepsStorage ==
    LET v == vec[last'.who]
        w == vec'[last'.who]
    IN /\ last'.op = "Clear" => w.size_ = 0
       /\ last'.op = "PopBack" => v.size_ > 0 /\ w.size_ = v.size_ - 1
       /\ w.capacity_ = v.capacity_
       /\ Slots(heap', w) = Slots(heap, v)
       /\ Elems(heap', w) = SubSeq(Elems(heap, v), 1, w.size_)

\* A PushBack made next keeps the capacity and the array.
PushBackReusesStorage ==
    LET w == vec'[last'.who]
    IN \A x \in Values :
          LET r == PushBackOp(heap', w, x)
          IN r.v.capacity_ = w.capacity_ /\ r.v.array_ = w.array_

\* C19 as stated: Clear sets size to 0 and PopBack decrements it, both keep
\* the capacity and the remaining elements, and a PushBack that follows
\* reuses the storage without changing the capacity.
C19_ShrinkThenPushBack ==
    [][last'.op \in {"Clear", "PopBack"} =>
        ShrinkKeepsStorage /\ PushBackReusesStorage]_vars

\* C19 amended: Clear sets size to 0 and PopBack decrements it, both keep the
\* capacity and the remaining elements; a PushBack that follows reuses the
\* storage without changing the capacity when the capacity is not 0, which is
\* always so after PopBack, and after Clear on a vector of capacity 0 it
\* allocates an array of capacity 1.
C19_ShrinkThenPushBackWithStorage ==
    [][last'.op \in {"Clear", "PopBack"} =>
        /\ ShrinkKeepsStorage
        /\ last'.op = "PopBack" => vec'[last'.who].capacity_ > 0
        /\ vec'[last'.who].capacity_ > 0 => PushBackReusesStorage
        /\ vec'[last'.who].capacity_ = 0 =>
              \A x \in Values :
                 PushBackOp(heap', vec'[last'.who], x).v.capacity_ = 1]_vars

\* Clear emptied a vector whose array of three slots still holds a value
\* that is not the default one.
C19_Witness ==
    /\ last.op = "Clear" /\ vec["A"].size_ = 0 /\ vec["A"].capacity_ = 3
    /\ Get(heap, vec["A"].array_, 2) \notin {Uninit, DefaultValue}

\* C20: a step lowers the capacity of a vector only if it is a copy
\* assignment to it, a move assignment to it or from it, a move construction
\* from it, or a swap with it; PushBack, PopBack, Insert, Erase, Reserve,
\* Resize and Clear never lower it.
C20_CapacityLowered ==
    [][\A n \in Names :
          (vec[n].alive /\ vec'[n].alive /\ vec'[n].capacity_ < vec[n].capacity_) =>
              \/ last'.op = "CopyAssign" /\ n = last'.who
              \/ last'.op = "MoveAssign" /\ n \in {last'.who, last'.from}
              \/ last'.op = "MoveConstruct" /\ n = last'.from
              \/ last'.op = "Swap" /\ n \in {last'.who, last'.from}]_vars

\* After a mutating call A is empty and still has the largest capacity, with
\* a value left in its last slot by an element it no longer has.
C20_Witness ==
    /\ last.op = "Mutate" /\ last.who = "A"
    /\ vec["A"].size_ = 0 /\ vec["A"].capacity_ = MaxCapTwo
    /\ Get(heap, vec["A"].array_, MaxCapTwo - 1) # Uninit

=============================================================================
